---- MODULE Spec2Model ----
\* Verification model of src/node-loader.ts (resolve-dependencies): the
\* asynchronous loader `load`, the resolver adapter `resolve` and the glob
\* expander `expand`.
\*
\* Strings are sequences of one-character strings, so that startsWith,
\* endsWith, path joining and message building are computed and not assumed.
EXTENDS Integers, Sequences, FiniteSets, TLC

VARIABLES
  pc,          \* where load stands: the await it is suspended on, or "done"
  request,     \* load's argument request
  options,     \* load's argument options
  resolved,    \* the Resolved that resolve() produced
  file,        \* load's local File
  ret,         \* what load returned: pending, a warning, the File, a rejection
  inflight,    \* the asynchronous operations started and not yet completed
  trace,       \* the calls load made, in the order it made them
  parsed,      \* what gatherDependencies returned or threw
  expandLog,   \* the completed calls of expand: arguments, deps before and after
  ctxAssigned, \* the number of assignments of file.contextExpanded
  allRes,      \* the results of realpath and stat under Promise.all
  lstats,      \* the result of lstat
  xpc,         \* expand in isolation: the number of runs made
  xfile,       \* expand in isolation: its File
  xargs,       \* expand in isolation: fileDir, baseDir and globby's matches
  xorig,       \* expand in isolation: the File before the first run
  xfirst       \* expand in isolation: the File after the first run

vars == <<pc, request, options, resolved, file, ret, inflight, trace,
          parsed, expandLog, ctxAssigned, allRes, lstats,
          xpc, xfile, xargs, xorig, xfirst>>

loadVars == <<pc, request, options, resolved, file, ret, inflight, trace,
              parsed, expandLog, ctxAssigned, allRes, lstats>>

expandVars == <<xpc, xfile, xargs, xorig, xfirst>>

-----------------------------------------------------------------------------
\* Bounds of the model

\* most files one globby call reports
MaxMatches == 1
\* file sizes range over 1..MaxSize
MaxSize == 2

-----------------------------------------------------------------------------
\* Values

\* an unresolved (null) and a resolved (non-null) dependency value
Null == "null"
Hint == "hint"
\* the empty string; also stands for the falsy `false` path of the resolver
Empty == <<>>
\* undefined / null where a string is expected (no string: strings hold
\* one-character elements)
Undefined == <<"undefined">>
\* undefined / null where an object is expected
None == [none |-> TRUE]
\* an absent size
NoSize == 0 - 1

TruthyStr(s) == s \notin {Undefined, Empty}

\* --- strings -------------------------------------------------------------
StartsWith(s, p) == Len(p) <= Len(s) /\ SubSeq(s, 1, Len(p)) = p

EndsWith(s, p) == Len(p) <= Len(s) /\ SubSeq(s, Len(s) - Len(p) + 1, Len(s)) = p

Contains(s, sub) ==
  \E i \in 1..(Len(s) - Len(sub) + 1) : SubSeq(s, i, i + Len(sub) - 1) = sub

\* --- node `path` ---------------------------------------------------------
Slash == "/"

IsAbs(p) == Len(p) > 0 /\ p[1] = Slash

\* the segments of p between slashes, empty segments dropped
RECURSIVE SegsFrom(_, _, _)
SegsFrom(p, i, cur) ==
  IF i > Len(p) THEN (IF cur = <<>> THEN <<>> ELSE <<cur>>)
  ELSE IF p[i] = Slash
       THEN (IF cur = <<>> THEN <<>> ELSE <<cur>>) \o SegsFrom(p, i + 1, <<>>)
       ELSE SegsFrom(p, i + 1, Append(cur, p[i]))

Segs(p) == SegsFrom(p, 1, <<>>)

Dot == <<".">>
DotDot == <<".", ".">>

\* path.normalize on segments: "." dropped, ".." pops
RECURSIVE NormSegs(_, _, _)
NormSegs(segs, acc, abs) ==
  IF segs = <<>> THEN acc
  ELSE LET s == Head(segs)
           acc1 == IF s = Dot THEN acc
                   ELSE IF s = DotDot
                        THEN IF acc # <<>> /\ acc[Len(acc)] # DotDot
                             THEN SubSeq(acc, 1, Len(acc) - 1)
                             ELSE IF abs THEN acc ELSE Append(acc, s)
                        ELSE Append(acc, s)
       IN NormSegs(Tail(segs), acc1, abs)

RECURSIVE Glue(_)
Glue(segs) ==
  IF segs = <<>> THEN <<>>
  ELSE IF Len(segs) = 1 THEN segs[1]
       ELSE segs[1] \o <<Slash>> \o Glue(Tail(segs))

FromSegs(segs, abs) ==
  IF abs THEN <<Slash>> \o Glue(segs)
  ELSE IF segs = <<>> THEN Dot ELSE Glue(segs)

\* path.join(a, b)
join(a, b) == FromSegs(NormSegs(Segs(a) \o Segs(b), <<>>, IsAbs(a)), IsAbs(a))

\* path.dirname(p), p absolute
dirname(p) ==
  LET s == Segs(p) IN
  IF Len(s) <= 1 THEN <<Slash>> ELSE FromSegs(SubSeq(s, 1, Len(s) - 1), TRUE)

RECURSIVE CommonLen(_, _)
CommonLen(a, b) ==
  IF a = <<>> \/ b = <<>> \/ Head(a) # Head(b) THEN 0
  ELSE 1 + CommonLen(Tail(a), Tail(b))

\* path.relative(from, to), both absolute
relative(from, to) ==
  LET f == NormSegs(Segs(from), <<>>, TRUE)
      t == NormSegs(Segs(to), <<>>, TRUE)
      c == CommonLen(f, t)
      ups == [i \in 1..(Len(f) - c) |-> DotDot]
  IN Glue(ups \o SubSeq(t, c + 1, Len(t)))

-----------------------------------------------------------------------------
\* ./file (not among the sources; modelled from the specification)

DotSlash == <<".", "/">>

\* the "explicitly relative" form of `to` seen from directory `from`
ensureDottedRelative(from, to) ==
  LET rel == relative(from, to) IN
  IF StartsWith(rel, DotSlash) THEN rel ELSE DotSlash \o rel

\* a bare specifier: it starts with no relative-path marker
isNodeModule(req) == ~ (StartsWith(req, Dot) \/ StartsWith(req, <<Slash>>))

createFile(absPath) ==
  [absPath |-> absPath, contents |-> Undefined, deps |-> [k \in {} |-> Null],
   variableImports |-> FALSE, package |-> None, moduleRoot |-> Undefined,
   contextExpanded |-> FALSE, size |-> NoSize, realPath |-> Undefined,
   realSize |-> NoSize]

DefaultGlobs == <<"**/*">>

\* the package's declared file allowlist, or the permissive default
nodeModuleGlobs(f) ==
  IF f.package # None /\ f.package.files # <<>> THEN f.package.files
  ELSE DefaultGlobs

\* the package's additional non-code asset patterns
extraGlobs(f) == IF f.package = None THEN <<>> ELSE f.package.assets

-----------------------------------------------------------------------------
\* The filesystem snapshot and the inputs of a call

PkgDir == <<"/", "p">>
FileI == <<"/", "p", "/", "l", "/", "i", ".", "j", "s">>
FileU == <<"/", "p", "/", "l", "/", "u", ".", "j", "s">>
FileD == <<"/", "p", "/", "d", ".", "j", "s", "o", "n">>
FileB == <<"/", "a", "/", "b", ".", "n", "o", "d", "e">>
Manifest == <<"/", "p", "/", "p", "a", "c", "k", "a", "g", "e", ".", "j", "s", "o", "n">>
RealTarget == <<"/", "r", "/", "i", ".", "j", "s">>

\* the regular files globby can report
WorldFiles == {FileI, FileU, FileD, FileB}

Left == <<"l", "e", "f", "t">>
LeftPad == <<"l", "e", "f", "t", "-", "p", "a", "d">>
KeyU == <<".", "/", "u", ".", "j", "s">>

ReqBare == <<"p">>
ReqRel == <<".", "/", "i">>
Requests == {ReqBare, ReqRel}

ExtJs == <<".", "j", "s">>
ExtMjs == <<".", "m", "j", "s">>
ExtJson == <<"j", "s", "o", "n">>

ErrMsg == <<"C", "a", "n", "'", "t", " ", "r", "e", "s", "o", "l", "v", "e">>
Stack == <<"S", "y", "n", "t", "a", "x", "E", "r", "r", "o", "r">>

Contexts ==
  { None, [moduleRoot |-> Undefined, globs |-> <<>>, expanded |-> FALSE] } \cup
  [moduleRoot : {PkgDir}, globs : {<<>>}, expanded : BOOLEAN]

OptionsSet ==
  [loadContent : BOOLEAN, expand : {"none", "variable", "all"},
   isEntry : BOOLEAN, context : Contexts]

\* parsed manifests; a manifest without "dependencies" has none to enumerate
Pkgs ==
  { [dependencies |-> {}, files |-> <<"l/**">>, assets |-> <<>>],
    [dependencies |-> {Left}, files |-> <<>>, assets |-> <<>>],
    [dependencies |-> {Left}, files |-> <<>>, assets |-> <<"*.node">>] }

NoDescription == [descriptionFilePath |-> Undefined, descriptionFileData |-> None]

\* what the resolver hands to the callback: (err, path, data); the files of
\* the package come with its manifest or with none, the others with none
Callbacks ==
  { [err |-> ErrMsg, path |-> Undefined, data |-> None] } \cup
  [err : {Undefined}, path : {Empty, FileB}, data : {NoDescription}] \cup
  [err : {Undefined}, path : {FileI, FileD},
   data : {NoDescription}
          \cup [descriptionFilePath : {Manifest}, descriptionFileData : Pkgs]]

EmptyDeps == [k \in {} |-> Null]

ManifestKey(absPath) == ensureDottedRelative(dirname(absPath), Manifest)

\* what gatherDependencies can return for the file at absPath, or throw
StaticDeps(absPath) ==
  { EmptyDeps, [k \in {LeftPad} |-> Null], [k \in {KeyU} |-> Hint],
    [k \in {ManifestKey(absPath)} |-> Hint] }

ParseOutcomes(absPath) ==
  [throws : {FALSE}, deps : StaticDeps(absPath), variable : BOOLEAN]
  \cup { [throws |-> TRUE, stack |-> Stack] }

Sizes == 1..MaxSize

\* globby(globs, {cwd}): paths of files under cwd, relative to cwd
FilesUnder(cwd) ==
  { relative(cwd, f) : f \in { w \in WorldFiles : StartsWith(w, cwd \o <<Slash>>) } }

Globby(globs, cwd) ==
  IF globs = <<>> THEN { {} }
  ELSE { m \in SUBSET FilesUnder(cwd) : Cardinality(m) <= MaxMatches }

-----------------------------------------------------------------------------
\* resolve (lines 62-81): the callback's arguments become a Resolved

Resolve(cb) ==
  IF cb.err # Undefined
  THEN [absPath |-> Empty, pkgPath |-> Empty, pkg |-> None, warning |-> cb.err]
  ELSE [absPath |-> cb.path, pkgPath |-> cb.data.descriptionFilePath,
        pkg |-> cb.data.descriptionFileData, warning |-> Empty]

-----------------------------------------------------------------------------
\* expand (lines 83-99), after globby has reported `files`

\* lines 86-87: the relative keys of the matches, the file itself filtered out
KeptMatches(f, fileDir, baseDir, files) ==
  { relDep \in { ensureDottedRelative(fileDir, join(baseDir, dep)) : dep \in files } :
      f.absPath # join(baseDir, relDep) }

GlobInsertOverwrite(deps, keys) ==
  [k \in DOMAIN deps \cup keys |-> IF k \in keys THEN Null ELSE deps[k]]

\* lines 88-90: file.deps[relDep] = file.deps[relDep] || null
GlobInsert(deps, keys) ==
  [k \in DOMAIN deps \cup keys |->
     IF k \in DOMAIN deps /\ deps[k] # Null THEN deps[k] ELSE Null]

ReconcileNothing(deps, pkg) == deps

\* lines 91-98: declared dependencies no current key starts with
Reconcile(deps, pkg) ==
  LET currentDeps == DOMAIN deps
      declared == IF pkg # None THEN pkg.dependencies ELSE {}
      missing == { d \in declared : ~ \E curDep \in currentDeps : StartsWith(curDep, d) }
  IN [k \in currentDeps \cup missing |->
        IF k \in currentDeps /\ deps[k] # Null THEN deps[k] ELSE Null]

ExpandBody(f, fileDir, baseDir, files) ==
  [f EXCEPT !.deps =
     Reconcile(GlobInsert(f.deps, KeptMatches(f, fileDir, baseDir, files)), f.package)]

-----------------------------------------------------------------------------
\* load (lines 101-165), cut at its awaits

\* line 111
IsJs(absPath, opts) ==
  EndsWith(absPath, ExtJs) \/ EndsWith(absPath, ExtMjs) \/ opts.isEntry

\* line 115
ReadsContents(absPath, opts) == IsJs(absPath, opts) \/ EndsWith(absPath, ExtJson)

ParsePrefix == <<"E", "r", "r", "o", "r", " ", "p", "a", "r", "s", "i", "n", "g", " ", "f", "i", "l", "e", ":", " ", "\"">>
ParseSep == <<"\"", "\n">>

\* line 125
ParseWarning(absPath, stack) == ParsePrefix \o absPath \o ParseSep \o stack

ExtractsJsonToo(absPath, opts) == ReadsContents(absPath, opts)

\* line 119: extraction is attempted for JS-like files
Extracts(absPath, opts) == IsJs(absPath, opts)

\* lines 122-123
Extracted(f, pr) ==
  [f EXCEPT !.deps = [k \in DOMAIN f.deps \cup DOMAIN pr.deps |->
                        IF k \in DOMAIN pr.deps THEN pr.deps[k] ELSE f.deps[k]],
            !.variableImports = pr.variable]

ExpandVariableAlways(f, opts) == opts.expand = "variable"

\* line 130
ExpandVariable(f, opts) == opts.expand = "variable" /\ f.variableImports

\* line 132
PkgRooted(req, res) == isNodeModule(req) /\ res.pkg # None /\ TruthyStr(res.pkgPath)

\* line 144
InheritedBranch(f, opts) ==
  /\ ExpandVariable(f, opts)
  /\ opts.context # None
  /\ TruthyStr(opts.context.moduleRoot)
  /\ ~ opts.context.expanded

\* lines 133-135
WithPackage(f, res) ==
  [f EXCEPT !.package = res.pkg,
            !.deps = [k \in DOMAIN f.deps \cup {ensureDottedRelative(dirname(f.absPath), res.pkgPath)} |->
                        IF k = ensureDottedRelative(dirname(f.absPath), res.pkgPath)
                        THEN Null ELSE f.deps[k]],
            !.moduleRoot = dirname(res.pkgPath)]

\* lines 154-157: up to the await of lstat
ToLstat(f, opts) ==
  [pc |-> "lstat",
   file |-> IF opts.loadContent THEN f ELSE [f EXCEPT !.contents = Undefined]]

AfterRootExpandAlsoCtx(f, opts) ==
  IF InheritedBranch(f, opts) THEN [pc |-> "expandCtx", file |-> f]
  ELSE IF extraGlobs(f) # <<>> THEN [pc |-> "expandExtra", file |-> f]
       ELSE ToLstat(f, opts)

\* lines 141-143, then 154
AfterRootExpand(f, opts) ==
  IF extraGlobs(f) # <<>> THEN [pc |-> "expandExtra", file |-> f]
  ELSE ToLstat(f, opts)

\* lines 129-152: from the end of extraction to the next await
PolicyStage(f, req, opts, res) ==
  IF PkgRooted(req, res)
  THEN LET f1 == WithPackage(f, res) IN
       IF ExpandVariable(f1, opts) \/ opts.expand = "all"
       THEN [pc |-> "expandRoot", file |-> f1]
       ELSE AfterRootExpand(f1, opts)
  ELSE IF InheritedBranch(f, opts)
       THEN [pc |-> "expandCtx", file |-> f]
       ELSE ToLstat(f, opts)

OpsOfNoAwait(stage) ==
  CASE stage = "resolve" -> <<"resolve">>
    [] stage = "readFile" -> <<"readFile">>
    [] stage \in {"expandRoot", "expandExtra", "expandCtx"} -> <<"globby", "lstat">>
    [] stage = "lstat" -> <<"lstat">>
    [] stage = "all" -> <<"realpath", "stat">>
    [] OTHER -> <<>>

\* the operations a stage has in flight while load awaits it
OpsOf(stage) ==
  CASE stage = "resolve" -> <<"resolve">>
    [] stage = "readFile" -> <<"readFile">>
    [] stage \in {"expandRoot", "expandExtra", "expandCtx"} -> <<"globby">>
    [] stage = "lstat" -> <<"lstat">>
    [] stage = "all" -> <<"realpath", "stat">>
    [] OTHER -> <<>>

Range(s) == { s[i] : i \in DOMAIN s }

Content == <<"s", "r", "c">>

LstatResults == [isSymbolicLink : BOOLEAN, size : Sizes]

NoParse == [none |-> TRUE]

-----------------------------------------------------------------------------
\* The state machine of one load call

LoadIdle ==
  /\ pc = "idle"
  /\ request = Undefined
  /\ options = None
  /\ resolved = None
  /\ file = None
  /\ ret = [kind |-> "pending"]
  /\ inflight = {}
  /\ trace = <<>>
  /\ parsed = NoParse
  /\ expandLog = <<>>
  /\ ctxAssigned = 0
  /\ allRes = [realpath |-> Undefined, stat |-> NoSize]
  /\ lstats = None

Init ==
  /\ LoadIdle
  /\ xpc = "off"
  /\ xfile = None
  /\ xargs = None
  /\ xorig = None
  /\ xfirst = None

\* load suspends on the operations of stage st.pc, after the synchronous
\* calls evs
Await(st, evs) ==
  /\ pc' = st.pc
  /\ file' = st.file
  /\ inflight' = Range(OpsOf(st.pc))
  /\ trace' = trace \o evs \o OpsOf(st.pc)
  /\ ret' = ret

\* load returns r
Return(r, evs) ==
  /\ pc' = "done"
  /\ ret' = r
  /\ inflight' = {}
  /\ trace' = trace \o evs

\* an awaited operation fails: the promise of load rejects
Reject(op) ==
  /\ pc' = "done"
  /\ ret' = [kind |-> "rejected", op |-> op]
  /\ inflight' = inflight \ {op}
  /\ trace' = trace
  /\ file' = file

\* load(workingDirectory, request, options): line 106 up to the await
CallLoad ==
  /\ pc = "idle"
  /\ \E req \in Requests, opts \in OptionsSet :
       /\ request' = req
       /\ options' = opts
  /\ pc' = "resolve"
  /\ inflight' = {"resolve"}
  /\ trace' = <<"resolve">>
  /\ UNCHANGED <<resolved, file, ret, parsed, expandLog, ctxAssigned, allRes, lstats>>
  /\ UNCHANGED expandVars

\* lines 106-117: the resolver calls back
ResolveDone ==
  /\ pc = "resolve"
  /\ \E cb \in Callbacks :
       LET res == Resolve(cb) IN
       /\ resolved' = res
       /\ IF ~ TruthyStr(res.absPath)
          THEN /\ Return([kind |-> "warning", warning |-> res.warning], <<>>)
               /\ file' = file
          ELSE LET f == createFile(res.absPath) IN
               IF ReadsContents(res.absPath, options)
               THEN Await([pc |-> "readFile", file |-> f], <<>>)
               ELSE Await(PolicyStage(f, request, options, res), <<>>)
  /\ UNCHANGED <<request, options, parsed, expandLog, ctxAssigned, allRes, lstats>>
  /\ UNCHANGED expandVars

\* lines 116-152: readFile completes; extraction and the expansion policy
ReadDone ==
  /\ pc = "readFile"
  /\ \/ Reject("readFile") /\ parsed' = parsed
     \/ LET f == [file EXCEPT !.contents = Content] IN
        IF Extracts(f.absPath, options)
        THEN \E pr \in ParseOutcomes(f.absPath) :
               /\ parsed' = pr
               /\ IF pr.throws
                  THEN /\ Return([kind |-> "warning",
                                  warning |-> ParseWarning(f.absPath, pr.stack)],
                                 <<"gatherDependencies">>)
                       /\ file' = f
                  ELSE Await(PolicyStage(Extracted(f, pr), request, options, resolved),
                             <<"gatherDependencies">>)
        ELSE /\ parsed' = parsed
             /\ Await(PolicyStage(f, request, options, resolved), <<>>)
  /\ UNCHANGED <<request, options, resolved, expandLog, ctxAssigned, allRes, lstats>>
  /\ UNCHANGED expandVars

LogEntry(kind, fileDir, baseDir, files, pre, post) ==
  [kind |-> kind, fileDir |-> fileDir, baseDir |-> baseDir, files |-> files,
   pre |-> pre, post |-> post]

\* lines 138-143: the module-root expansion completes
ExpandRootDone ==
  /\ pc = "expandRoot"
  /\ \/ Reject("globby") /\ UNCHANGED <<expandLog, ctxAssigned>>
     \/ LET fileDir == dirname(file.absPath)
            pkgDir == file.moduleRoot
        IN \E files \in Globby(nodeModuleGlobs(file), pkgDir) :
             LET f1 == ExpandBody(file, fileDir, pkgDir, files)
                 f2 == [f1 EXCEPT !.contextExpanded = TRUE]
             IN /\ expandLog' = Append(expandLog,
                     LogEntry("root", fileDir, pkgDir, files, file.deps, f1.deps))
                /\ ctxAssigned' = ctxAssigned + 1
                /\ Await(AfterRootExpand(f2, options), <<>>)
  /\ UNCHANGED <<request, options, resolved, parsed, allRes, lstats>>
  /\ UNCHANGED expandVars

\* lines 142-143: the expansion of the extra asset globs completes
ExpandExtraDone ==
  /\ pc = "expandExtra"
  /\ \/ Reject("globby") /\ UNCHANGED expandLog
     \/ LET fileDir == dirname(file.absPath)
            pkgDir == file.moduleRoot
        IN \E files \in Globby(extraGlobs(file), pkgDir) :
             LET f1 == ExpandBody(file, fileDir, pkgDir, files) IN
             /\ expandLog' = Append(expandLog,
                  LogEntry("extra", fileDir, pkgDir, files, file.deps, f1.deps))
             /\ Await(ToLstat(f1, options), <<>>)
  /\ UNCHANGED <<request, options, resolved, parsed, ctxAssigned, allRes, lstats>>
  /\ UNCHANGED expandVars

\* lines 145-151: the expansion of the inherited context completes
ExpandCtxDone ==
  /\ pc = "expandCtx"
  /\ \/ Reject("globby") /\ UNCHANGED <<expandLog, ctxAssigned>>
     \/ LET fileDir == dirname(file.absPath)
            root == options.context.moduleRoot
            globs == nodeModuleGlobs([package |-> [files |-> options.context.globs]])
        IN \E files \in Globby(globs, root) :
             LET f1 == ExpandBody(file, fileDir, root, files)
                 f2 == [f1 EXCEPT !.contextExpanded = TRUE]
             IN /\ expandLog' = Append(expandLog,
                     LogEntry("context", fileDir, root, files, file.deps, f1.deps))
                /\ ctxAssigned' = ctxAssigned + 1
                /\ Await(ToLstat(f2, options), <<>>)
  /\ UNCHANGED <<request, options, resolved, parsed, allRes, lstats>>
  /\ UNCHANGED expandVars

FinalSizeOfTarget(st, r) == r.stat

\* line 163: file.size = stats.size, with st of lstat and r of the Promise.all
FinalSize(st, r) == st.size

\* lines 157-164: lstat completes
LstatDone ==
  /\ pc = "lstat"
  /\ \/ Reject("lstat") /\ lstats' = lstats
     \/ \E st \in LstatResults :
          /\ lstats' = st
          /\ IF st.isSymbolicLink
             THEN Await([pc |-> "all", file |-> file], <<>>)
             ELSE /\ file' = [file EXCEPT !.size = FinalSize(st, allRes)]
                  /\ Return([kind |-> "file"], <<>>)
  /\ UNCHANGED <<request, options, resolved, parsed, expandLog, ctxAssigned, allRes>>
  /\ UNCHANGED expandVars

\* lines 159-164: one operation of the Promise.all completes with results r;
\* load goes on when both have
Settled(op, r) ==
  /\ allRes' = r
  /\ inflight' = inflight \ {op}
  /\ trace' = trace
  /\ IF inflight \ {op} = {}
     THEN /\ file' = [file EXCEPT !.realPath = r.realpath, !.realSize = r.stat,
                                  !.size = FinalSize(lstats, r)]
          /\ pc' = "done"
          /\ ret' = [kind |-> "file"]
     ELSE UNCHANGED <<file, pc, ret>>

RealpathDone ==
  /\ pc = "all"
  /\ "realpath" \in inflight
  /\ \/ Reject("realpath") /\ allRes' = allRes
     \/ Settled("realpath", [allRes EXCEPT !.realpath = RealTarget])
  /\ UNCHANGED <<request, options, resolved, parsed, expandLog, ctxAssigned, lstats>>
  /\ UNCHANGED expandVars

StatDone ==
  /\ pc = "all"
  /\ "stat" \in inflight
  /\ \/ Reject("stat") /\ allRes' = allRes
     \/ \E n \in Sizes : Settled("stat", [allRes EXCEPT !.stat = n])
  /\ UNCHANGED <<request, options, resolved, parsed, expandLog, ctxAssigned, lstats>>
  /\ UNCHANGED expandVars

\* the other operation of a rejected Promise.all completes unobserved
LateSettle ==
  /\ pc = "done"
  /\ \E op \in inflight : inflight' = inflight \ {op}
  /\ UNCHANGED <<pc, request, options, resolved, file, ret, trace, parsed,
                 expandLog, ctxAssigned, allRes, lstats>>
  /\ UNCHANGED expandVars

Next ==
  \/ CallLoad
  \/ ResolveDone
  \/ ReadDone
  \/ ExpandRootDone
  \/ ExpandExtraDone
  \/ ExpandCtxDone
  \/ LstatDone
  \/ RealpathDone
  \/ StatDone
  \/ LateSettle

Spec == Init /\ [][Next]_vars

-----------------------------------------------------------------------------
\* expand as a function of its arguments: a File, the directories and the
\* matches of globby are drawn, and expand runs twice on them

XKeys == {KeyU, LeftPad, <<".", "/", "i", ".", "j", "s">>}

XDeps == UNION { [S -> {Null, Hint}] : S \in SUBSET XKeys }

XFiles ==
  { [createFile(p) EXCEPT !.deps = d, !.package = g] :
      p \in {FileI, FileD}, d \in XDeps, g \in Pkgs \cup {None} }

InitExpand ==
  /\ LoadIdle
  /\ xpc = "start"
  /\ xfile \in XFiles
  /\ \E files \in Globby(DefaultGlobs, PkgDir) :
       xargs = [fileDir |-> dirname(xfile.absPath), baseDir |-> PkgDir,
                files |-> files]
  /\ xorig = None
  /\ xfirst = None

ExpandFirst ==
  /\ xpc = "start"
  /\ xorig' = xfile
  /\ xfile' = ExpandBody(xfile, xargs.fileDir, xargs.baseDir, xargs.files)
  /\ xfirst' = xfile'
  /\ xpc' = "once"
  /\ UNCHANGED xargs
  /\ UNCHANGED loadVars

ExpandSecond ==
  /\ xpc = "once"
  /\ xfile' = ExpandBody(xfile, xargs.fileDir, xargs.baseDir, xargs.files)
  /\ xpc' = "twice"
  /\ UNCHANGED <<xargs, xorig, xfirst>>
  /\ UNCHANGED loadVars

NextExpand == ExpandFirst \/ ExpandSecond

SpecExpand == InitExpand /\ [][NextExpand]_vars

-----------------------------------------------------------------------------
\* Properties

Returned == pc = "done" /\ ret.kind = "file"

Started(op) == \E i \in DOMAIN trace : trace[i] = op

Count(op) == Cardinality({ i \in DOMAIN trace : trace[i] = op })

\* the keys an expansion e added to file.deps
AddedBy(e) == DOMAIN e.post \ DOMAIN e.pre

\* C1: when the resolver maps the specifier to no file (it reports an error
\* or yields no usable path), load returns a failure whose warning is not
\* empty, constructs no File, and reads, extracts, globs and stats nothing.
C1_UnresolvedWarns ==
  (pc = "done" /\ ~ TruthyStr(resolved.absPath)) =>
     /\ ret.kind = "warning"
     /\ ret.warning # Empty
     /\ file = None
     /\ trace = <<"resolve">>

\* C2: no key that an expansion adds to file.deps denotes the File itself,
\* whether or not baseDir equals fileDir.
C2_SelfExcluded ==
  \A i \in DOMAIN expandLog :
    \A k \in AddedBy(expandLog[i]) :
      join(expandLog[i].fileDir, k) # file.absPath

\* C3: a second run of expand with the same fileDir, baseDir and matches
\* leaves file.deps as the first run left it, and neither run resets a key
\* that held a resolved value to unresolved.
C3_ExpandIdempotent ==
  xpc = "twice" =>
     /\ xfile.deps = xfirst.deps
     /\ \A k \in DOMAIN xorig.deps :
          xorig.deps[k] # Null =>
            /\ k \in DOMAIN xfile.deps
            /\ xfile.deps[k] = xorig.deps[k]
            /\ xfirst.deps[k] = xorig.deps[k]

C3_Witness ==
  /\ xpc = "twice"
  /\ DOMAIN xfile.deps # DOMAIN xorig.deps
  /\ \E k \in DOMAIN xorig.deps :
       /\ xorig.deps[k] = Hint
       /\ \E dep \in xargs.files :
            k = ensureDottedRelative(xargs.fileDir, join(xargs.baseDir, dep))

\* C4 (as claimed): within one load, expansion runs at most once for a File
\* and base directory, and contextExpanded is assigned at most once.
C4_OncePerBaseDir ==
  /\ ctxAssigned <= 1
  /\ \A i, j \in DOMAIN expandLog :
       i # j => expandLog[i].baseDir # expandLog[j].baseDir

\* C4 (amended): within one load, the expansion that marks contextExpanded
\* runs at most once and contextExpanded is assigned at most once; expand
\* runs at most twice, the second time only for the extra asset globs.
C4_MarkedOnce ==
  /\ ctxAssigned <= 1
  /\ Cardinality({ i \in DOMAIN expandLog : expandLog[i].kind # "extra" }) <= 1
  /\ Cardinality({ i \in DOMAIN expandLog : expandLog[i].kind = "extra" }) <= 1
  /\ \A i \in DOMAIN expandLog : expandLog[i].kind # "extra" => i = 1

C4_Witness ==
  /\ Len(expandLog) = 2
  /\ expandLog[1].baseDir = expandLog[2].baseDir
  /\ ctxAssigned = 1

\* the names the manifest of the File declares as dependencies
Declared == IF file.package = None THEN {} ELSE file.package.dependencies

StaticKeys ==
  IF parsed = NoParse \/ parsed.throws THEN {} ELSE DOMAIN parsed.deps

MatchKeys(e) ==
  { ensureDottedRelative(e.fileDir, join(e.baseDir, dep)) : dep \in e.files }

\* C5 (as claimed): after expand, every declared dependency name that no
\* static import produced and no glob matched is an unresolved key.
C5_DeclaredPresent ==
  \A i \in DOMAIN expandLog :
    \A d \in Declared :
      (d \notin StaticKeys /\ d \notin MatchKeys(expandLog[i])) =>
         /\ d \in DOMAIN expandLog[i].post
         /\ expandLog[i].post[d] = Null

\* C5 (amended): after expand, every declared dependency name that is a
\* prefix of no key file.deps holds once the matches are inserted is an
\* unresolved key.
C5_UncoveredPresent ==
  \A i \in DOMAIN expandLog :
    \A d \in Declared :
      (~ \E k \in DOMAIN expandLog[i].pre
                   \cup (MatchKeys(expandLog[i]) \cap DOMAIN expandLog[i].post) :
            StartsWith(k, d)) =>
         /\ d \in DOMAIN expandLog[i].post
         /\ expandLog[i].post[d] = Null

C5_Witness ==
  \E i \in DOMAIN expandLog :
    /\ Left \in Declared
    /\ Left \in AddedBy(expandLog[i])
    /\ expandLog[i].post[Left] = Null
    /\ expandLog[i].files # {}

\* C6: when extraction throws, load neither throws nor rejects: it returns
\* a warning holding the file's absolute path and the diagnostic, returns no
\* File and expands and stats nothing; extraction is attempted only for
\* .js, .mjs and entry files.
C6_ParseFailureWarns ==
  /\ (parsed # NoParse /\ parsed.throws) =>
        /\ pc = "done"
        /\ ret.kind = "warning"
        /\ Contains(ret.warning, file.absPath)
        /\ Contains(ret.warning, parsed.stack)
        /\ expandLog = <<>>
        /\ inflight = {}
        /\ trace = <<"resolve", "readFile", "gatherDependencies">>
  /\ Started("gatherDependencies") =>
        \/ EndsWith(file.absPath, ExtJs)
        \/ EndsWith(file.absPath, ExtMjs)
        \/ options.isEntry

C6_Witness ==
  /\ parsed # NoParse
  /\ parsed.throws
  /\ ret.kind = "warning"
  /\ options.expand = "all"

HasVariable == parsed # NoParse /\ ~ parsed.throws /\ parsed.variable

HasOpenContext ==
  /\ options.context # None
  /\ options.context.moduleRoot # Undefined
  /\ ~ options.context.expanded

\* the policy of C7
ExpansionDue ==
  \/ options.expand = "all" /\ PkgRooted(request, resolved)
  \/ /\ options.expand = "variable"
     /\ HasVariable
     /\ PkgRooted(request, resolved) \/ HasOpenContext

\* C7: the expansion that marks contextExpanded runs exactly when the policy
\* asks for it; a load never runs it otherwise, and the returned File has
\* contextExpanded set exactly when the policy asked for it.
C7_ExpansionPolicy ==
  /\ ctxAssigned > 0 => ExpansionDue
  /\ pc \in {"expandRoot", "expandCtx"} => ExpansionDue
  /\ pc \in {"expandExtra", "lstat", "all"} => (ctxAssigned = 1 <=> ExpansionDue)
  /\ Returned => /\ file.contextExpanded <=> ExpansionDue
                 /\ file.contextExpanded <=> ctxAssigned = 1

C7_Witness ==
  /\ Returned
  /\ file.contextExpanded
  /\ options.expand = "variable"
  /\ ~ PkgRooted(request, resolved)

\* C8: a key of file.deps that static extraction gave a resolved value
\* keeps it through the rest of the load.
C8_ResolvedKept ==
  (file # None /\ pc # "readFile" /\ parsed # NoParse /\ ~ parsed.throws) =>
     \A k \in DOMAIN parsed.deps :
       parsed.deps[k] # Null =>
         /\ k \in DOMAIN file.deps
         /\ file.deps[k] = parsed.deps[k]

\* C9: the returned File's size is the size lstat reported; realPath and
\* realSize are set, to the link's target and its size, exactly when the
\* resolved path is a symbolic link.
C9_Symlink ==
  Returned =>
     /\ file.size = lstats.size
     /\ lstats.isSymbolicLink =>
          /\ file.realPath = RealTarget
          /\ file.realSize = allRes.stat
          /\ file.realSize \in Sizes
     /\ ~ lstats.isSymbolicLink =>
          /\ file.realPath = Undefined
          /\ file.realSize = NoSize

C9_Witness ==
  /\ Returned
  /\ lstats.isSymbolicLink
  /\ file.realSize # file.size

\* the stage of an operation
Rank(op) ==
  CASE op = "resolve" -> 1
    [] op = "readFile" -> 2
    [] op = "gatherDependencies" -> 3
    [] op = "globby" -> 4
    [] OTHER -> 5

\* the stages start in order, each after the operations of the one before
\* have completed
StagesInOrder ==
  /\ \A i, j \in DOMAIN trace : i < j => Rank(trace[i]) <= Rank(trace[j])
  /\ \A op \in inflight : Rank(op) = Rank(trace[Len(trace)])
  /\ Started("lstat") => "globby" \notin inflight
  /\ Count("globby") =
       Len(expandLog)
       + (IF "globby" \in inflight THEN 1 ELSE 0)
       + (IF ret.kind = "rejected" /\ ret.op = "globby" THEN 1 ELSE 0)
  /\ \A op \in {"resolve", "readFile", "gatherDependencies", "lstat",
                "realpath", "stat"} : Count(op) <= 1

\* C10 (as claimed): the stages run in order and no two filesystem
\* operations of a load are in flight at the same time.
C10_OneAtATime ==
  /\ StagesInOrder
  /\ Cardinality(inflight) <= 1

\* C10 (amended): the stages run in order and no two filesystem operations
\* of a load are in flight at the same time, except realpath and stat of a
\* symbolic link, which start together once lstat has completed.
C10_Sequential ==
  /\ StagesInOrder
  /\ Cardinality(inflight) <= 1 \/ inflight = {"realpath", "stat"}
  /\ inflight = {"realpath", "stat"} =>
       /\ lstats # None
       /\ trace[Len(trace) - 2] = "lstat"

C10_Witness ==
  /\ inflight = {"realpath", "stat"}
  /\ Len(expandLog) = 2

====
